---- MODULE Spec2Model ----
(***************************************************************************)
(* Model of the Obi conversation pipeline: two citizen slots (src/app.py), *)
(* each owning a ConversationContext that ConversationManager.get_response *)
(* (src/utils/conversation_manager.py) mutates turn by turn.               *)
(*                                                                         *)
(* A text is a sequence of one-character strings. get_response is split at *)
(* its external calls (retrieval, primary generation, sleep, fallback      *)
(* generation). Both contexts live in one st.session_state, whose script   *)
(* runs one at a time and is not interrupted inside get_response (it makes *)
(* no Streamlit call), so a handler starts only when none is in flight.    *)
(***************************************************************************)
EXTENDS Integers, Sequences, FiniteSets, TLC

(***************************************************************************)
(* Bounds of the model.                                                    *)
(***************************************************************************)
\* a chat input is accepted only while the history holds fewer messages
MaxMessages == 4
\* a chat input is accepted only while the slot's input key is below this
MaxKey == 1
\* the retriever returns at most this many passages
MaxResults == 1

Slots == {1, 2}

\* Optional values: None is the empty tuple, a present value x is <<x>>
None == <<>>

Some(x) == <<x>>

Val(o) == o[1]

(***************************************************************************)
(* Characters and the regular-expression classes of _fix_text_formatting.  *)
(***************************************************************************)
Digits == {"0", "1", "2", "3", "4", "5", "6", "7", "8", "9"}

Letters == {"a", "b", "c", "d", "e", "f", "g", "h", "i", "j", "k", "l", "m",
            "n", "o", "p", "q", "r", "s", "t", "u", "v", "w", "x", "y", "z",
            "A", "B", "C", "D", "E", "F", "G", "H", "I", "J", "K", "L", "M",
            "N", "O", "P", "Q", "R", "S", "T", "U", "V", "W", "X", "Y", "Z"}

Spaces == {" ", "\n", "\t", "\r", "\f"}

Punct == {".", "!", "?"}

\* the bullet marker U+2022, one character
Bullet == "u2022"

QuestionWords ==
    << <<"W","h","i","c","h">>, <<"W","h","a","t">>, <<"H","o","w">>,
       <<"W","o","u","l","d">>, <<"C","o","u","l","d">>, <<"C","a","n">>,
       <<"D","o">>, <<"D","o","e","s">>, <<"I","s">>, <<"A","r","e">>,
       <<"S","h","o","u","l","d">>, <<"W","i","l","l">>,
       <<"W","h","e","r","e">>, <<"W","h","e","n">> >>

\* first index >= i of t that holds no whitespace (Len(t)+1 if none): \s*
RECURSIVE SkipSpaces(_, _)
SkipSpaces(t, i) ==
    IF i <= Len(t) /\ t[i] \in Spaces THEN SkipSpaces(t, i + 1) ELSE i

\* first index >= i of t that holds no digit (Len(t)+1 if none): \d+
RECURSIVE SkipDigits(_, _)
SkipDigits(t, i) ==
    IF i <= Len(t) /\ t[i] \in Digits THEN SkipDigits(t, i + 1) ELSE i

\* re.sub(r'\$\s+(\d)', r'$\1', text), scanning from index i
RECURSIVE SubDollar(_, _)
SubDollar(t, i) ==
    IF i > Len(t) THEN <<>>
    ELSE LET j == SkipSpaces(t, i + 1)
         IN  IF t[i] = "$" /\ j > i + 1 /\ j <= Len(t) /\ t[j] \in Digits
             THEN <<"$", t[j]>> \o SubDollar(t, j + 1)
             ELSE <<t[i]>> \o SubDollar(t, i + 1)

\* re.sub(r'(\d+)([a-zA-Z])', r'\1 \2', text), scanning from index i
RECURSIVE SubDigitLetter(_, _)
SubDigitLetter(t, i) ==
    IF i > Len(t) THEN <<>>
    ELSE LET k == SkipDigits(t, i)
         IN  IF k > i /\ k <= Len(t) /\ t[k] \in Letters
             THEN SubSeq(t, i, k - 1) \o <<" ", t[k]>> \o SubDigitLetter(t, k + 1)
             ELSE <<t[i]>> \o SubDigitLetter(t, i + 1)

\* re.sub(r'([a-zA-Z])(\d+)', r'\1 \2', text), scanning from index i
RECURSIVE SubLetterDigit(_, _)
SubLetterDigit(t, i) ==
    IF i > Len(t) THEN <<>>
    ELSE LET k == SkipDigits(t, i + 1)
         IN  IF t[i] \in Letters /\ k > i + 1
             THEN <<t[i], " ">> \o SubSeq(t, i + 1, k - 1) \o SubLetterDigit(t, k)
             ELSE <<t[i]>> \o SubLetterDigit(t, i + 1)

\* re.sub(r'([.!?])\s*(<bullet>)', r'\1\n\n\2', text), scanning from index i
RECURSIVE SubPunctBullet(_, _)
SubPunctBullet(t, i) ==
    IF i > Len(t) THEN <<>>
    ELSE LET k == SkipSpaces(t, i + 1)
         IN  IF t[i] \in Punct /\ k <= Len(t) /\ t[k] = Bullet
             THEN <<t[i], "\n", "\n", Bullet>> \o SubPunctBullet(t, k + 1)
             ELSE <<t[i]>> \o SubPunctBullet(t, i + 1)

\* variant: only a bullet right after the character is matched, the
\* whitespace before the bullet is not consumed
RECURSIVE SubAnyBullet_Adjacent(_, _)
SubAnyBullet_Adjacent(t, i) ==
    IF i > Len(t) THEN <<>>
    ELSE IF t[i] # Bullet /\ i + 1 <= Len(t) /\ t[i + 1] = Bullet
         THEN <<t[i], "\n", "\n", Bullet>> \o SubAnyBullet_Adjacent(t, i + 2)
         ELSE <<t[i]>> \o SubAnyBullet_Adjacent(t, i + 1)

\* re.sub(r'([^<bullet>])\s*<bullet>', r'\1\n\n<bullet>', text), scanning from index i
RECURSIVE SubAnyBullet(_, _)
SubAnyBullet(t, i) ==
    IF i > Len(t) THEN <<>>
    ELSE LET k == SkipSpaces(t, i + 1)
         IN  IF t[i] # Bullet /\ k <= Len(t) /\ t[k] = Bullet
             THEN <<t[i], "\n", "\n", Bullet>> \o SubAnyBullet(t, k + 1)
             ELSE <<t[i]>> \o SubAnyBullet(t, i + 1)

\* the word w stands at index k of t and whitespace follows it
WordAt(t, k, w) ==
    /\ k + Len(w) <= Len(t)
    /\ SubSeq(t, k, k + Len(w) - 1) = w
    /\ t[k + Len(w)] \in Spaces

\* re.sub(r'([.!?])\s*(Which|What|...|When)\s', r'\1\n\n\2 ', text), from index i
RECURSIVE SubQuestion(_, _)
SubQuestion(t, i) ==
    IF i > Len(t) THEN <<>>
    ELSE LET k == SkipSpaces(t, i + 1)
             ws == {n \in 1..Len(QuestionWords) : WordAt(t, k, QuestionWords[n])}
         IN  IF t[i] \in Punct /\ ws # {}
             THEN LET w == QuestionWords[CHOOSE n \in ws : \A m \in ws : n <= m]
                  IN  <<t[i], "\n", "\n">> \o w \o <<" ">>
                          \o SubQuestion(t, k + Len(w) + 1)
             ELSE <<t[i]>> \o SubQuestion(t, i + 1)

\* ConversationManager._fix_text_formatting
_fix_text_formatting(text) ==
    LET t1 == SubDollar(text, 1)
        t2 == SubDigitLetter(t1, 1)
        t3 == SubLetterDigit(t2, 1)
        t4 == SubPunctBullet(t3, 1)
        t5 == SubAnyBullet(t4, 1)
    IN  SubQuestion(t5, 1)

(***************************************************************************)
(* Data of the program and of its collaborators.                           *)
(***************************************************************************)
\* ConversationManager.system_prompt, abbreviated to its first word
system_prompt == <<"Y", "o", "u">>

\* the seed text of the priming turn
SeedText == <<"H", "e", "l", "l", "o", "?">>

\* user-profiles-yaml.txt as load_user_profiles reads it when complete
AllProfiles ==
    << [full_name |-> <<"A", "n", "a">>, primary_language |-> <<"e", "n">>,
        type |-> <<"D">>, number |-> <<"S", "1">>, expiration |-> <<"2", "0", "2", "5">>,
        street |-> <<"1", " ", "E", "l", "m">>, city |-> <<"L", "y", "n", "n">>,
        state |-> <<"M", "A">>, zip |-> <<"0", "1", "9", "0", "1">>,
        bagman_description |-> <<"b", "r", "i", "e", "f">>],
       [full_name |-> <<"B", "o">>, primary_language |-> <<"e", "s">>,
        type |-> <<"M">>, number |-> <<"S", "2">>, expiration |-> <<"2", "0", "2", "6">>,
        street |-> <<"2", " ", "O", "a", "k">>, city |-> <<"A", "y", "e", "r">>,
        state |-> <<"M", "A">>, zip |-> <<"0", "1", "4", "3", "2">>,
        bagman_description |-> <<>>] >>

\* what a citizen may type in st.chat_input
UserTexts == {<<"h", "i">>}

\* raw texts the generation backend may return
GenTexts == {<<"$", " ", "5">>, <<"O", "k">>}

\* responses of client.messages.create: without the content attribute, with
\* an empty content list, or with one content block, which is a text block
\* (its text possibly empty) or a block without a text attribute
Responses ==
    {[has_content |-> FALSE, content |-> <<>>], [has_content |-> TRUE, content |-> <<>>],
     [has_content |-> TRUE, content |-> <<[has_text |-> FALSE, text |-> <<>>]>>]}
        \cup {[has_content |-> TRUE, content |-> <<[has_text |-> TRUE, text |-> t]>>] :
                   t \in GenTexts \cup {<<>>}}

\* exceptions client.messages.create may raise; str is str(e), as words
ApiErrors ==
    {[type |-> "APIStatusError", str |-> <<"529", "overloaded_error">>],
     [type |-> "APIStatusError", str |-> <<"500", "api_error">>]}

\* the exception query_engine.query may raise
RetrievalError == [type |-> "Exception", str |-> <<"query", "failed">>]

\* ValueError(msg)
ValueError(msg) == [type |-> "ValueError", str |-> <<msg>>]

\* passages the retriever may return
Passages == {[text |-> <<"f", "e", "e">>, metadata |-> [source |-> <<"f", "a", "q">>]]}

\* sequences over S of length at most n
RECURSIVE SeqsUpTo(_, _)
SeqsUpTo(S, n) ==
    IF n = 0 THEN {<<>>}
    ELSE LET shorter == SeqsUpTo(S, n - 1)
         IN  shorter \cup {Append(q, x) : q \in shorter, x \in S}

\* Message(role, content, visible)
Message(role, content, visible) ==
    [role |-> role, content |-> content, visible |-> visible]

\* ConversationContext(messages=[], system_message_added=False, active_user_profile=None)
NewContext ==
    [messages |-> <<>>, last_query_results |-> None,
     system_message_added |-> FALSE, active_user_profile |-> None]

\* "overloaded_error" in str(e)
IsOverloaded(e) == \E i \in 1..Len(e.str) : e.str[i] = "overloaded_error"

\* the texts of xs joined by sep
RECURSIVE Join(_, _)
Join(xs, sep) ==
    IF xs = <<>> THEN <<>>
    ELSE IF Len(xs) = 1 THEN xs[1]
    ELSE xs[1] \o sep \o Join(Tail(xs), sep)

\* ConversationManager._format_context
\* variant: an empty result is reported in words
_format_context_Placeholder(query_results) ==
    IF query_results = <<>> THEN <<"No relevant documents found.">>
    ELSE LET part(r) == <<"From ">> \o r.metadata.source \o <<":\n">> \o r.text
         IN  Join([i \in 1..Len(query_results) |-> part(query_results[i])], <<"\n\n">>)

_format_context(query_results) ==
    LET part(r) == <<"From ">> \o r.metadata.source \o <<":\n">> \o r.text
    IN  Join([i \in 1..Len(query_results) |-> part(query_results[i])], <<"\n\n">>)

\* the conversation history of _create_prompt: the content of every message
\* whose role is not "system", in the order of the list
\* variant: only the messages shown on the page are kept
HistoryParts_VisibleOnly(messages) ==
    LET history == SelectSeq(messages, LAMBDA m : m.role # "system" /\ m.visible)
    IN  [i \in 1..Len(history) |-> history[i].content]

HistoryParts(messages) ==
    LET history == SelectSeq(messages, LAMBDA m : m.role # "system")
    IN  [i \in 1..Len(history) |-> history[i].content]

\* ConversationManager._create_prompt; user_profile is None or Some(profile).
\* A literal fragment of an f-string is kept as one element of the text.
_create_prompt(messages, user_profile) ==
    LET p == Val(user_profile)
        bagman_info == p.bagman_description
        profile_context ==
            <<"Current User Profile:\n- Name: ">> \o p.full_name
                \o <<"\n- Preferred Language: ">> \o p.primary_language
                \o <<"\n- License Details:\n  * Type: ">> \o p.type
                \o <<"\n  * Number: ">> \o p.number
                \o <<"\n  * Expiration: ">> \o p.expiration
                \o <<"\n- Address: ">> \o p.street \o <<", ">> \o p.city
                \o <<", ">> \o p.state \o <<" ">> \o p.zip
                \o <<"\n- Additional Notes: ">> \o bagman_info \o <<"\n">>
        profile_parts ==
            IF user_profile = None THEN <<>>
            ELSE (IF bagman_info # <<>>
                  THEN << <<"Important Note - ">> \o bagman_info >> ELSE <<>>)
                 \o <<profile_context>>
    IN  Join(<<system_prompt>> \o profile_parts \o HistoryParts(messages),
             <<"\n\n">>)

\* display_chat_messages: the messages written to the page, in order
\* variant: the visible flag is not tested
display_chat_messages_All(messages) ==
    SelectSeq(messages, LAMBDA m : m.role # "system")

display_chat_messages(messages) ==
    SelectSeq(messages, LAMBDA m : m.role # "system" /\ m.visible)

(***************************************************************************)
(* State.                                                                  *)
(***************************************************************************)
VARIABLES
    ctx,        \* st.session_state.citizen<k>_context
    input_key,  \* st.session_state.citizen<k>_input_key
    pc,         \* where the handler of column s stands
    local,      \* arguments and locals of the get_response call of column s
    log,        \* history of the turn of column s: the messages at entry, the
                \* external calls made, the failures of the generation calls
    origin,     \* history: origin[k][i] is the column whose handler put
                \* message i into context k
    x,          \* a text handed to _fix_text_formatting
    fixed,      \* the results of applying _fix_text_formatting to x, then
                \* to its own result
    constructed,\* history: how ChatLogger.__init__ ended
    threads,    \* ChatLogger.threads: the collection handle, or None
    store,      \* the documents of the threads collection, in insertion order
    issued,     \* history: the identifiers start_thread returned, in order
    ret,        \* the end of the last ChatLogger call: its method, whether it
                \* raised, the value it returned
    now,        \* the clock datetime.utcnow() reads
    thread_id,  \* the transcript identifier of context k, or None
    pending,    \* the transcript calls the turn of column s has yet to make
    written,    \* history: the log_message calls of the turn of column s
    store_errors \* history: how many calls of the collection raised under
                \* the page

appvars == <<ctx, input_key, pc, local, log, origin>>

textvars == <<x, fixed>>

logvars == <<constructed, threads, store, issued, ret, now>>

sessvars == <<thread_id, pending, written, store_errors>>

vars == <<ctx, input_key, pc, local, log, origin, x, fixed,
          constructed, threads, store, issued, ret, now,
          thread_id, pending, written, store_errors>>

NoLocal ==
    [kind |-> "none", query |-> <<>>, visible |-> TRUE, prompt |-> <<>>,
     response |-> None, error |-> None]

NoLog ==
    [pre |-> <<>>, calls |-> <<>>, queried |-> None,
     primary_error |-> None, fallback_error |-> None]

\* the session state after the first script run
AppInit ==
    /\ ctx = [k \in Slots |-> NewContext]
    /\ input_key = [k \in Slots |-> 0]
    /\ pc = [s \in Slots |-> "idle"]
    /\ local = [s \in Slots |-> NoLocal]
    /\ log = [s \in Slots |-> NoLog]
    /\ origin = [k \in Slots |-> <<>>]

\* no text is being formatted
TextIdle ==
    /\ x = <<>>
    /\ fixed = <<>>

NoReturn == [op |-> "none", failed |-> FALSE, raised |-> FALSE, value |-> None]

\* the page of src/app.py builds no ChatLogger
NoChatLogger ==
    /\ constructed = "none"
    /\ threads = None
    /\ store = <<>>
    /\ issued = <<>>
    /\ ret = NoReturn
    /\ now = 0

\* no transcript identifier is assigned and no transcript call is due
NoTranscript ==
    /\ thread_id = [k \in Slots |-> None]
    /\ pending = [s \in Slots |-> <<>>]
    /\ written = [s \in Slots |-> <<>>]
    /\ store_errors = 0

Init ==
    /\ AppInit
    /\ TextIdle
    /\ NoChatLogger
    /\ NoTranscript

\* no script run is in flight
AllIdle == \A t \in Slots : pc[t] = "idle"

(***************************************************************************)
(* The handlers of main (src/app.py).                                      *)
(***************************************************************************)
\* the session_state entries column s works on: citizen<s>_context and
\* citizen<s>_input_key
\* variant: both columns work on the entries of column 1
ContextKey_Column1(s) == 1

ContextKey(s) == s

\* the profile the Start button of column s binds, given the loaded users:
\* users[0] if users, for column 1; users[1] if len(users) > 1, for column 2
StartProfile(s, users) ==
    IF s = 1
    THEN (IF Len(users) > 0 THEN Some(users[1]) ELSE None)
    ELSE (IF Len(users) > 1 THEN Some(users[2]) ELSE None)

\* the three assignments of the Start handler to the context c
\* variant: only the profile is assigned
StartContext_KeepHistory(c, profile) ==
    [c EXCEPT !.active_user_profile = profile]

\* variant: the one-shot flag is not cleared
StartContext_KeepFlag(c, profile) ==
    [c EXCEPT !.active_user_profile = profile, !.messages = <<>>]

StartContext(c, profile) ==
    [c EXCEPT !.active_user_profile = profile,
              !.messages = <<>>,
              !.system_message_added = FALSE]

\* st.button("Start Citizen <s>") pressed: bind the profile, reset the
\* history and the flag, and call process_user_message("Hello?", visible=False)
Start(s) ==
    /\ AllIdle
    /\ \E n \in 0..Len(AllProfiles) :
         LET profile == StartProfile(s, SubSeq(AllProfiles, 1, n))
             k == ContextKey(s)
             c == StartContext(ctx[k], profile)
         IN  /\ profile # None
             /\ ctx' = [ctx EXCEPT ![k] = c]
             /\ origin' = [origin EXCEPT ![k] = SubSeq(@, 1, Len(c.messages))]
    /\ pc' = [pc EXCEPT ![s] = "call"]
    /\ local' = [local EXCEPT ![s] = [NoLocal EXCEPT !.kind = "start",
                                                      !.query = SeedText,
                                                      !.visible = FALSE]]
    /\ log' = [log EXCEPT ![s] = NoLog]
    /\ UNCHANGED input_key

\* the chat input of a context is on the page: if context.active_user_profile
\* variant: the chat input is on the page whatever the binding
ChatInputShown_Always(c) == TRUE

\* variant: the input is shown once the context holds an assistant message
ChatInputShown_AfterOpening(c) ==
    /\ c.active_user_profile # None
    /\ \E i \in 1..Len(c.messages) : c.messages[i].role = "assistant"

ChatInputShown(c) == c.active_user_profile # None

\* st.chat_input of column s returns text
ChatInput(s, text) ==
    /\ AllIdle
    /\ ChatInputShown(ctx[ContextKey(s)])
    /\ Len(ctx[ContextKey(s)].messages) < MaxMessages
    /\ input_key[ContextKey(s)] < MaxKey
    /\ pc' = [pc EXCEPT ![s] = "call"]
    /\ local' = [local EXCEPT ![s] = [NoLocal EXCEPT !.kind = "chat",
                                                      !.query = text,
                                                      !.visible = TRUE]]
    /\ log' = [log EXCEPT ![s] = NoLog]
    /\ UNCHANGED <<ctx, input_key, origin>>

(***************************************************************************)
(* ConversationManager.get_response, one action per external call.         *)
(***************************************************************************)
\* if not context.system_message_added
\* variant: the flag is not tested
NeedsSystemMessage_Always(c) == TRUE

NeedsSystemMessage(c) == ~c.system_message_added

\* the user message get_response appends on entry, visible or not
\* variant: a message that is not shown is not kept
UserMessages_VisibleOnly(query, visible) ==
    IF visible THEN << Message("user", query, visible) >> ELSE <<>>

UserMessages(query, visible) == << Message("user", query, visible) >>

\* entry: add the persona message once, append the user message
Enter(s) ==
    /\ pc[s] = "call"
    /\ LET k == ContextKey(s)
           c == ctx[k]
           added == IF NeedsSystemMessage(c)
                    THEN << Message("system", system_prompt, TRUE) >> ELSE <<>>
           user == UserMessages(local[s].query, local[s].visible)
       IN  /\ ctx' = [ctx EXCEPT
                        ![k].messages = c.messages \o added \o user,
                        ![k].system_message_added =
                            IF NeedsSystemMessage(c) THEN TRUE ELSE @]
           /\ origin' = [origin EXCEPT
                           ![k] = @ \o [i \in 1..(Len(added) + Len(user)) |-> s]]
           /\ log' = [log EXCEPT ![s].pre = c.messages]
    /\ pc' = [pc EXCEPT ![s] = "query"]
    /\ UNCHANGED <<input_key, local>>

\* the text handed to query_engine.query: the query argument as it came
\* variant: the retriever is asked with the persona text
QueryText_Persona(query) == system_prompt

QueryText(query) == query

\* the header of the grounding block in the prompt
ContextHeader == <<"\n\nRelevant Document Context:\n">>

\* query_engine.query(query), then the prompt is assembled
Query(s) ==
    /\ pc[s] = "query"
    /\ log' = [log EXCEPT ![s].calls = Append(@, "query"),
                          ![s].queried = Some(QueryText(local[s].query))]
    /\ LET k == ContextKey(s)
       IN  \/ \E query_results \in SeqsUpTo(Passages, MaxResults) :
                /\ ctx' = [ctx EXCEPT ![k].last_query_results = Some(query_results)]
                /\ local' = [local EXCEPT ![s].prompt =
                               _create_prompt(ctx[k].messages, ctx[k].active_user_profile)
                                   \o ContextHeader
                                   \o _format_context(query_results)]
                /\ pc' = [pc EXCEPT ![s] = "primary"]
           \/ /\ local' = [local EXCEPT ![s].error = Some(RetrievalError)]
              /\ pc' = [pc EXCEPT ![s] = "raised"]
              /\ UNCHANGED ctx
    /\ UNCHANGED <<input_key, origin>>

\* where get_response goes when the primary call raises e: the fallback
\* after the delay if e is an overload, else e is raised again
\* variant: every failure of the primary call leads to the fallback
AfterPrimaryError_AlwaysFallback(e) == "sleep"

AfterPrimaryError(e) == IF IsOverloaded(e) THEN "sleep" ELSE "raised"

\* client.messages.create(model="claude-3-5-sonnet-20241022", ...)
Primary(s) ==
    /\ pc[s] = "primary"
    /\ \/ \E response \in Responses :
            /\ local' = [local EXCEPT ![s].response = Some(response)]
            /\ pc' = [pc EXCEPT ![s] = "validate"]
            /\ log' = [log EXCEPT ![s].calls = Append(@, "primary")]
       \/ \E e \in ApiErrors :
            /\ pc' = [pc EXCEPT ![s] = AfterPrimaryError(e)]
            /\ local' = [local EXCEPT ![s].error =
                           IF AfterPrimaryError(e) = "raised" THEN Some(e) ELSE @]
            /\ log' = [log EXCEPT ![s].calls = Append(@, "primary"),
                                  ![s].primary_error = Some(e)]
    /\ UNCHANGED <<ctx, input_key, origin>>

\* time.sleep(1)
Sleep(s) ==
    /\ pc[s] = "sleep"
    /\ log' = [log EXCEPT ![s].calls = Append(@, "sleep")]
    /\ pc' = [pc EXCEPT ![s] = "fallback"]
    /\ UNCHANGED <<ctx, input_key, local, origin>>

\* where get_response goes when the fallback call raises e: the call stands
\* in the except block, outside any try, so e leaves get_response
\* variant: an overloaded fallback is tried again
AfterFallbackError_Retry(e) == IF IsOverloaded(e) THEN "sleep" ELSE "raised"

AfterFallbackError(e) == "raised"

\* client.messages.create(model="claude-3-opus-20240229", ...)
Fallback(s) ==
    /\ pc[s] = "fallback"
    /\ \/ \E response \in Responses :
            /\ local' = [local EXCEPT ![s].response = Some(response)]
            /\ pc' = [pc EXCEPT ![s] = "validate"]
            /\ log' = [log EXCEPT ![s].calls = Append(@, "fallback")]
       \/ \E e \in ApiErrors :
            /\ pc' = [pc EXCEPT ![s] = AfterFallbackError(e)]
            /\ local' = [local EXCEPT ![s].error =
                           IF AfterFallbackError(e) = "raised" THEN Some(e) ELSE @]
            /\ log' = [log EXCEPT ![s].calls = Append(@, "fallback"),
                                  ![s].fallback_error = Some(e)]
    /\ UNCHANGED <<ctx, input_key, origin>>

\* not generated_response
\* variant: the text is not tested
IsEmptyText_Never(generated_response) == FALSE

IsEmptyText(generated_response) == generated_response = <<>>

\* the message of the error for a response without the content attribute
NoResponseMessage == "No response received from Anthropic"

\* the message of the error for a response without generated text
\* variant: the message of the other error is used
EmptyResponseMessage_Same == "No response received from Anthropic"

EmptyResponseMessage == "Empty response received from Anthropic"

\* the outcome of lines 216-221 on a response: the exception raised, or the
\* generated text
Validation(response) ==
    IF ~response.has_content
    THEN [raises |-> TRUE, text |-> <<>>,
          error |-> ValueError(NoResponseMessage)]
    ELSE IF response.content # <<>> /\ ~response.content[1].has_text
    THEN [raises |-> TRUE, text |-> <<>>,
          error |-> [type |-> "AttributeError", str |-> <<"text">>]]
    ELSE LET generated_response ==
                 IF response.content # <<>> THEN response.content[1].text ELSE <<>>
         IN  IF IsEmptyText(generated_response)
             THEN [raises |-> TRUE, text |-> <<>>,
                   error |-> ValueError(EmptyResponseMessage)]
             ELSE [raises |-> FALSE, text |-> generated_response,
                   error |-> ValueError("")]

\* the messages get_response appends for a validation outcome: none when it
\* raised, else the formatted text as a visible assistant message
\* variant: the assistant message is appended before validation
AssistantMessages_Partial(v) ==
    << Message("assistant", _fix_text_formatting(v.text), TRUE) >>

AssistantMessages(v) ==
    IF v.raises THEN <<>>
    ELSE << Message("assistant", _fix_text_formatting(v.text), TRUE) >>

\* validation of the response, formatting, and the assistant message
Validate(s) ==
    /\ pc[s] = "validate"
    /\ LET k == ContextKey(s)
           v == Validation(Val(local[s].response))
           appended == AssistantMessages(v)
       IN  /\ ctx' = [ctx EXCEPT ![k].messages = @ \o appended]
           /\ origin' = [origin EXCEPT ![k] = @ \o [i \in 1..Len(appended) |-> s]]
           /\ local' = [local EXCEPT ![s].error = IF v.raises THEN Some(v.error) ELSE @]
           /\ pc' = [pc EXCEPT ![s] = IF v.raises THEN "raised" ELSE "returned"]
    /\ UNCHANGED <<input_key, log>>

\* the input key after a turn of the given kind returned: the chat handler
\* increments it, the Start handler does not touch it
\* variant: a completed Start sets the key back to 0
KeyAfterTurn_ResetOnStart(kind, key) == IF kind = "chat" THEN key + 1 ELSE 0

\* variant: the Start handler increments the key too
KeyAfterTurn_Always(kind, key) == key + 1

KeyAfterTurn(kind, key) == IF kind = "chat" THEN key + 1 ELSE key

\* get_response returned: process_user_message returns True; st.rerun()
Returned(s) ==
    /\ pc[s] = "returned"
    /\ input_key' = [input_key EXCEPT
                       ![ContextKey(s)] = KeyAfterTurn(local[s].kind, @)]
    /\ pc' = [pc EXCEPT ![s] = "idle"]
    /\ local' = [local EXCEPT ![s] = NoLocal]
    /\ log' = [log EXCEPT ![s] = NoLog]
    /\ UNCHANGED <<ctx, origin>>

\* get_response raised: the exception leaves process_user_message and main
Raised(s) ==
    /\ pc[s] = "raised"
    /\ pc' = [pc EXCEPT ![s] = "idle"]
    /\ local' = [local EXCEPT ![s] = NoLocal]
    /\ log' = [log EXCEPT ![s] = NoLog]
    /\ UNCHANGED <<ctx, input_key, origin>>

\* the page: the handlers of the two columns, which format no text of
\* their own outside get_response
Next ==
    \E s \in Slots :
        \/ Start(s) /\ UNCHANGED <<textvars, logvars, sessvars>>
        \/ \E text \in UserTexts : ChatInput(s, text) /\ UNCHANGED <<textvars, logvars, sessvars>>
        \/ Enter(s) /\ UNCHANGED <<textvars, logvars, sessvars>>
        \/ Query(s) /\ UNCHANGED <<textvars, logvars, sessvars>>
        \/ Primary(s) /\ UNCHANGED <<textvars, logvars, sessvars>>
        \/ Sleep(s) /\ UNCHANGED <<textvars, logvars, sessvars>>
        \/ Fallback(s) /\ UNCHANGED <<textvars, logvars, sessvars>>
        \/ Validate(s) /\ UNCHANGED <<textvars, logvars, sessvars>>
        \/ Returned(s) /\ UNCHANGED <<textvars, logvars, sessvars>>
        \/ Raised(s) /\ UNCHANGED <<textvars, logvars, sessvars>>

Spec == Init /\ [][Next]_vars

(***************************************************************************)
(* _fix_text_formatting on its own: every text of up to MaxTextLen tokens  *)
(* is formatted, and the result is formatted again.                        *)
(***************************************************************************)
MaxTextLen == 4

\* '$', a digit, a letter, two kinds of whitespace, sentence punctuation,
\* the bullet marker and the interrogative word "Is"
TextTokens ==
    { <<"$">>, <<"1">>, <<"a">>, <<" ">>, <<"\n">>, <<".">>, <<Bullet>>,
      <<"I", "s">> }

RECURSIVE Flatten(_)
Flatten(tokens) ==
    IF tokens = <<>> THEN <<>> ELSE tokens[1] \o Flatten(Tail(tokens))

TextInputs == {Flatten(tokens) : tokens \in SeqsUpTo(TextTokens, MaxTextLen)}

TextInit ==
    /\ AppInit
    /\ NoChatLogger
    /\ NoTranscript
    /\ x \in TextInputs
    /\ fixed = <<>>

\* text = self._fix_text_formatting(text), on x and then on the result
Format ==
    /\ Len(fixed) < 2
    /\ fixed' = Append(fixed, _fix_text_formatting(
                                  IF fixed = <<>> THEN x ELSE fixed[Len(fixed)]))
    /\ UNCHANGED <<appvars, logvars, sessvars, x>>

TextNext == Format

SpecText == TextInit /\ [][TextNext]_vars

(***************************************************************************)
(* ChatLogger on its own: one logger, connected or not, and any sequence  *)
(* of calls of its methods.                                                *)
(***************************************************************************)
MaxThreads == 2

MaxLogged == 1

HexDigits == <<"0", "1", "2", "3", "4", "5", "6", "7", "8", "9",
               "a", "b", "c", "d", "e", "f">>

\* uuid.uuid4(): the random field of the identifier, cut down to a few
\* values; a value already drawn is not drawn again, the property the uuid
\* module is used for
UuidValues == 0..(MaxThreads - 1)

\* str(uuid): 32 hexadecimal digits in groups of 8-4-4-4-12, the version
\* digit 4 and a variant digit; the random value is the last digit
UuidStr(n) ==
    [i \in 1..36 |->
        IF i \in {9, 14, 19, 24} THEN "-"
        ELSE IF i = 15 THEN "4"
        ELSE IF i = 20 THEN "8"
        ELSE IF i = 36 THEN HexDigits[n + 1]
        ELSE "0"]

FreshValues(ids) == {n \in UuidValues : \A i \in 1..Len(ids) : ids[i] # UuidStr(n)}

\* self.threads after the except branch of __init__
\* variant: the handle assigned before the failure is kept
DegradedHandle_Stale == Some("threads")

DegradedHandle == None

\* ChatLogger.__init__: the connection is made, or any failure is caught
ChatLogger_init ==
    /\ \/ constructed = "connected" /\ threads = Some("threads")
       \/ constructed = "failed" /\ threads = DegradedHandle
    /\ store = <<>>
    /\ issued = <<>>
    /\ ret = NoReturn
    /\ now = 0

\* if not self.threads
Available(handle) == handle # None

\* how a call of the collection ends: it returns, or it raises with the
\* write lost, or it raises after the server applied the write
StoreOutcomes ==
    {[ok |-> TRUE, applied |-> TRUE],
     [ok |-> FALSE, applied |-> FALSE],
     [ok |-> FALSE, applied |-> TRUE]}

\* except Exception as e: logger.error(...)
\* variant: start_thread has no handler around insert_one
OnStoreError_Propagate(op) == IF op = "start_thread" THEN "raised" ELSE "logged"

OnStoreError(op) == "logged"

\* the value start_thread returns when the collection is not available
\* variant: nothing is returned
ThreadIdWhenUnavailable_None(id) == None

ThreadIdWhenUnavailable(id) == id

\* {"$push": {"messages": message}}
\* variant: the message is put in front
Push_Front(messages, message) == <<message>> \o messages

Push(messages, message) == Append(messages, message)

\* the positions of the documents with this thread_id
Matching(docs, id) == {i \in 1..Len(docs) : docs[i].thread_id = id}

\* threads.update_one({"thread_id": thread_id}, {"$push": ...}): the first
\* matching document gets the message; nothing happens when none matches
update_one(docs, id, message) ==
    LET found == Matching(docs, id)
    IN  IF found = {} THEN docs
        ELSE LET i == CHOOSE j \in found : \A k \in found : j <= k
             IN  [docs EXCEPT ![i].messages = Push(@, message)]

\* threads.find_one({"thread_id": thread_id})
find_one(docs, id) ==
    LET found == Matching(docs, id)
    IN  IF found = {} THEN None
        ELSE Some(docs[CHOOSE j \in found : \A k \in found : j <= k])

\* threads.find({"messages": {"$elemMatch": {"timestamp": {"$gte", "$lte"}}}})
find_in_timerange(docs, start_date, end_date) ==
    SelectSeq(docs, LAMBDA d :
        \E i \in 1..Len(d.messages) :
            /\ d.messages[i].timestamp >= start_date
            /\ d.messages[i].timestamp <= end_date)

RECURSIVE TotalMessages(_)
TotalMessages(docs) ==
    IF docs = <<>> THEN 0 ELSE Len(docs[1].messages) + TotalMessages(Tail(docs))

\* ChatLogger.start_thread; n is the value uuid4 draws, outcome how the
\* call of the collection, if one is made, ends
start_thread(n, outcome) ==
    /\ n \in FreshValues(issued)
    /\ LET id == UuidStr(n)
       IN  IF ~Available(threads)
           THEN /\ ret' = [op |-> "start_thread", failed |-> FALSE,
                           raised |-> FALSE,
                           value |-> ThreadIdWhenUnavailable(id)]
                /\ issued' = Append(issued, ThreadIdWhenUnavailable(id))
                /\ store' = store
           ELSE /\ store' = IF outcome.applied
                            THEN Append(store, [thread_id |-> id,
                                                messages |-> <<>>])
                            ELSE store
                /\ IF ~outcome.ok /\ OnStoreError("start_thread") = "raised"
                   THEN /\ ret' = [op |-> "start_thread", failed |-> TRUE,
                                   raised |-> TRUE, value |-> None]
                        /\ issued' = issued
                   ELSE /\ ret' = [op |-> "start_thread", failed |-> ~outcome.ok,
                                   raised |-> FALSE, value |-> id]
                        /\ issued' = Append(issued, id)
    /\ UNCHANGED <<constructed, threads, now>>

\* ChatLogger.log_message
log_message(id, role, content, outcome) ==
    /\ IF ~Available(threads)
       THEN /\ ret' = [op |-> "log_message", failed |-> FALSE,
                       raised |-> FALSE, value |-> None]
            /\ store' = store
       ELSE LET message == [timestamp |-> now, role |-> role,
                            content |-> content]
            IN  /\ store' = IF outcome.applied
                            THEN update_one(store, id, message)
                            ELSE store
                /\ ret' = [op |-> "log_message", failed |-> ~outcome.ok,
                           raised |-> ~outcome.ok
                                      /\ OnStoreError("log_message") = "raised",
                           value |-> None]
    /\ UNCHANGED <<constructed, threads, issued, now>>

\* a read of the collection returns what it found, or raises
ReadOutcomes == {TRUE, FALSE}

\* ChatLogger.get_thread
get_thread(id) ==
    /\ IF ~Available(threads)
       THEN ret' = [op |-> "get_thread", failed |-> FALSE, raised |-> FALSE,
                    value |-> None]
       ELSE \E ok \in ReadOutcomes :
            ret' = [op |-> "get_thread", failed |-> ~ok,
                    raised |-> ~ok /\ OnStoreError("get_thread") = "raised",
                    value |-> IF ok THEN find_one(store, id) ELSE None]
    /\ UNCHANGED <<constructed, threads, store, issued, now>>

\* ChatLogger.get_all_threads
get_all_threads ==
    /\ IF ~Available(threads)
       THEN ret' = [op |-> "get_all_threads", failed |-> FALSE,
                    raised |-> FALSE, value |-> <<>>]
       ELSE \E ok \in ReadOutcomes :
            ret' = [op |-> "get_all_threads", failed |-> ~ok,
                    raised |-> ~ok /\ OnStoreError("get_all_threads") = "raised",
                    value |-> IF ok THEN store ELSE <<>>]
    /\ UNCHANGED <<constructed, threads, store, issued, now>>

\* ChatLogger.get_threads_in_timerange
get_threads_in_timerange(start_date, end_date) ==
    /\ IF ~Available(threads)
       THEN ret' = [op |-> "get_threads_in_timerange", failed |-> FALSE,
                    raised |-> FALSE, value |-> <<>>]
       ELSE \E ok \in ReadOutcomes :
            ret' = [op |-> "get_threads_in_timerange", failed |-> ~ok,
                    raised |-> ~ok /\ OnStoreError("get_threads_in_timerange") = "raised",
                    value |-> IF ok
                              THEN find_in_timerange(store, start_date, end_date)
                              ELSE <<>>]
    /\ UNCHANGED <<constructed, threads, store, issued, now>>

\* time passes between two calls; the clock is read in ticks of which a
\* session of the page sees one
Tick ==
    /\ now < MaxLogged
    /\ now' = now + 1
    /\ UNCHANGED <<constructed, threads, store, issued, ret>>

\* the identifiers a caller may pass: the issued ones and one never issued
KnownIds == {issued[i] : i \in 1..Len(issued)} \cup {UuidStr(15)}

Roles == {"user", "assistant"}

LoggerInit ==
    /\ AppInit
    /\ TextIdle
    /\ NoTranscript
    /\ ChatLogger_init

LoggerNext ==
    \/ /\ Len(issued) < MaxThreads
       /\ \E n \in UuidValues, outcome \in StoreOutcomes : start_thread(n, outcome)
       /\ UNCHANGED <<appvars, textvars, sessvars>>
    \/ /\ TotalMessages(store) < MaxLogged
       /\ \E id \in KnownIds, role \in Roles, content \in UserTexts,
              outcome \in StoreOutcomes :
              log_message(id, role, content, outcome)
       /\ UNCHANGED <<appvars, textvars, sessvars>>
    \/ \E id \in KnownIds :
           get_thread(id) /\ UNCHANGED <<appvars, textvars, sessvars>>
    \/ get_all_threads /\ UNCHANGED <<appvars, textvars, sessvars>>
    \/ \E start_date \in 0..MaxLogged, end_date \in 0..MaxLogged :
           /\ start_date <= end_date
           /\ get_threads_in_timerange(start_date, end_date)
               /\ UNCHANGED <<appvars, textvars, sessvars>>
    \/ Tick /\ UNCHANGED <<appvars, textvars, sessvars>>

SpecLogger == LoggerInit /\ [][LoggerNext]_vars

(***************************************************************************)
(* The page with a transcript: get_response hands the messages of a turn  *)
(* to a ChatLogger.  The calls are not in src/ (get_response makes none,  *)
(* ConversationContext has no thread_id); they follow steps 2, 8 and 9 of *)
(* the turn as spec.md gives them and the Start of its session model: the *)
(* identifier is cleared on Start and assigned by start_thread on the     *)
(* first turn that logs; the user message is logged once it is in the     *)
(* context, the assistant message once it is in the context.              *)
(***************************************************************************)
MaxStoreErrors == 1

\* how many times Start is pressed in a run of the page with a transcript
MaxStarts == 1

\* the column whose turns are followed: the transcript calls of a turn touch
\* the context of its own column only
LoggedSlots == {1}

\* a transcript call of the turn of column s is due
Due(s) == pending[s] # <<>>

\* how a call of the collection may end under the page: it raises at most
\* MaxStoreErrors times in a run
PageOutcomes ==
    IF Available(threads) /\ store_errors < MaxStoreErrors THEN StoreOutcomes
    ELSE {[ok |-> TRUE, applied |-> TRUE]}

\* the value uuid4 draws under the page: the identifiers differ in this
\* value only, and the page is followed with the least one not drawn yet
PageUuidValues ==
    {n \in FreshValues(issued) : \A m \in FreshValues(issued) : n <= m}

Errors(outcome) == IF Available(threads) /\ ~outcome.ok THEN 1 ELSE 0

LoggedInit ==
    /\ AppInit
    /\ TextIdle
    /\ NoTranscript
    /\ ChatLogger_init

\* Start, which also clears the transcript identifier of the context
StartLogged(s) ==
    /\ Len(issued) < MaxStarts
    /\ Len(issued) < MaxThreads
    /\ Start(s)
    /\ thread_id' = [thread_id EXCEPT ![ContextKey(s)] = None]
    /\ UNCHANGED <<textvars, logvars, pending, written, store_errors>>

\* the user message is in the context: a thread is started if the context
\* has none, and the user message is due to be logged
EnterLogged(s) ==
    /\ Enter(s)
    /\ pending' = [pending EXCEPT ![s] =
                      (IF thread_id[ContextKey(s)] = None THEN <<"start">> ELSE <<>>)
                          \o <<"user">>]
    /\ written' = [written EXCEPT ![s] = <<>>]
    /\ UNCHANGED <<textvars, logvars, thread_id, store_errors>>

\* thread_id = chat_logger.start_thread()
StartThread(s) ==
    /\ Due(s)
    /\ Head(pending[s]) = "start"
    /\ \E n \in PageUuidValues, outcome \in PageOutcomes :
           /\ start_thread(n, outcome)
           /\ store_errors' = store_errors + Errors(outcome)
    /\ thread_id' = [thread_id EXCEPT ![ContextKey(s)] = ret'.value]
    /\ pending' = [pending EXCEPT ![s] = Tail(@)]
    /\ UNCHANGED <<appvars, textvars, written>>

\* chat_logger.log_message(thread_id, role, content) for the message that is
\* due; written keeps the call, whether the collection raised in it, and
\* whether the assistant message was in the context when it was made
LogTurnMessage(s) ==
    /\ Due(s)
    /\ Head(pending[s]) \in Roles
    /\ LET role == Head(pending[s])
           messages == ctx[ContextKey(s)].messages
           content == IF role = "user" THEN local[s].query
                      ELSE messages[Len(messages)].content
       IN  /\ \E outcome \in PageOutcomes :
                  /\ log_message(thread_id[ContextKey(s)], role, content, outcome)
                  /\ store_errors' = store_errors + Errors(outcome)
           /\ written' = [written EXCEPT ![s] =
                             Append(@, [role |-> role, content |-> content,
                                        failed |-> ret'.failed,
                                        answered |-> messages[Len(messages)].role
                                                         = "assistant"])]
    /\ pending' = [pending EXCEPT ![s] = Tail(@)]
    /\ UNCHANGED <<appvars, textvars, thread_id>>

\* validation, after which the assistant message, if it was appended, is due
\* to be logged
ValidateLogged(s) ==
    /\ Validate(s)
    /\ pending' = [pending EXCEPT ![s] =
                      IF pc'[s] = "returned" THEN <<"assistant">> ELSE <<>>]
    /\ UNCHANGED <<textvars, logvars, thread_id, written, store_errors>>

\* the handler goes on after get_response returned or raised
EndLogged(s) ==
    /\ Returned(s) \/ Raised(s)
    /\ written' = [written EXCEPT ![s] = <<>>]
    /\ UNCHANGED <<textvars, logvars, thread_id, pending, store_errors>>

\* a step of get_response waits for the transcript calls that are due
LoggedNext ==
    \E s \in LoggedSlots :
        \/ StartLogged(s)
        \/ \E text \in UserTexts :
               ChatInput(s, text) /\ UNCHANGED <<textvars, logvars, sessvars>>
        \/ EnterLogged(s)
        \/ StartThread(s)
        \/ LogTurnMessage(s)
        \/ ~Due(s) /\ Query(s) /\ UNCHANGED <<textvars, logvars, sessvars>>
        \/ ~Due(s) /\ Primary(s) /\ UNCHANGED <<textvars, logvars, sessvars>>
        \/ ~Due(s) /\ Sleep(s) /\ UNCHANGED <<textvars, logvars, sessvars>>
        \/ ~Due(s) /\ Fallback(s) /\ UNCHANGED <<textvars, logvars, sessvars>>
        \/ ~Due(s) /\ ValidateLogged(s)
        \/ ~Due(s) /\ EndLogged(s)

SpecLogged == LoggedInit /\ [][LoggedNext]_vars

(***************************************************************************)
(* Properties.                                                             *)
(***************************************************************************)
\* the persona message as get_response stores it
PersonaMessage == Message("system", system_prompt, TRUE)

\* Message.__eq__: role and content, not visible
SameMessage(m1, m2) == m1.role = m2.role /\ m1.content = m2.content

\* the indices of the persona message in a message sequence
PersonaAt(messages) ==
    {i \in 1..Len(messages) : SameMessage(messages[i], PersonaMessage)}

\* the number of messages of a role in a message sequence
CountRole(messages, role) ==
    Cardinality({i \in 1..Len(messages) : messages[i].role = role})

\* the number of calls of a kind in a call history
CountCalls(calls, what) ==
    Cardinality({i \in 1..Len(calls) : calls[i] = what})

\* the error carries the overload signal
OverloadClass(e) == \E i \in 1..Len(e.str) : e.str[i] = "overloaded_error"

\* the turn of column s is over: get_response returned or raised
TurnOver(s) == pc[s] \in {"returned", "raised"}

\* C1: in every context, after any turns (successful or failed) and Start
\* actions, the persona message appears at most once
C1_PersonaAtMostOnce ==
    \A k \in Slots : Cardinality(PersonaAt(ctx[k].messages)) <= 1

\* C1 witness: a slot that completed a chat turn, was started again, and whose
\* priming turn then failed, holds the persona message once
C1_Witness ==
    \E k \in Slots :
        /\ AllIdle
        /\ input_key[k] = 1
        /\ Len(ctx[k].messages) = 2
        /\ Cardinality(PersonaAt(ctx[k].messages)) = 1

\* C2: after an overload failure of the primary call the fallback is called
\* exactly once, and only after the delay; after any other failure of the
\* primary call there is no fallback call and the failure reaches the caller
C2_FallbackOnOverloadOnly ==
    \A s \in Slots :
        LET calls == log[s].calls
            perr == log[s].primary_error
        IN  /\ \A i \in 1..Len(calls) :
                   calls[i] = "fallback" =>
                       /\ i > 2 /\ calls[i - 1] = "sleep" /\ calls[i - 2] = "primary"
                       /\ perr # None /\ OverloadClass(Val(perr))
            /\ (perr # None /\ OverloadClass(Val(perr))) =>
                   /\ pc[s] \in {"sleep", "fallback", "validate", "returned", "raised"}
                   /\ pc[s] \in {"validate", "returned", "raised"} =>
                          CountCalls(calls, "fallback") = 1
            /\ (perr # None /\ ~OverloadClass(Val(perr))) =>
                   /\ pc[s] = "raised"
                   /\ CountCalls(calls, "fallback") = 0
                   /\ CountCalls(calls, "sleep") = 0
                   /\ local[s].error = perr

\* C2 witness: the primary call was overloaded and the fallback call answered
C2_Witness ==
    \E s \in Slots :
        /\ pc[s] = "validate"
        /\ log[s].primary_error # None
        /\ OverloadClass(Val(log[s].primary_error))
        /\ log[s].calls = <<"query", "primary", "sleep", "fallback">>

\* C3 (state part): a turn calls the fallback at most once and makes at most
\* two generation calls; a failure of the fallback call, overload included,
\* ends the turn as failed with that failure
C3_State ==
    \A s \in Slots :
        LET calls == log[s].calls
            ferr == log[s].fallback_error
        IN  /\ CountCalls(calls, "fallback") <= 1
            /\ CountCalls(calls, "primary") <= 1
            /\ ferr # None =>
                   /\ pc[s] = "raised"
                   /\ local[s].error = ferr
                   /\ CountCalls(calls, "fallback") = 1

\* C3 (step part): Delivered and Failed are terminal: the only step of a turn
\* that returned or raised is its handler's end, which makes no call and
\* leaves every context as it is
C3_Step ==
    \A s \in Slots :
        (TurnOver(s) /\ pc'[s] # pc[s]) =>
            /\ pc'[s] = "idle"
            /\ log'[s].calls = <<>>
            /\ ctx' = ctx

\* C3: no turn makes more than one fallback attempt; a fallback failure is
\* not retried; Delivered and Failed are terminal; at most two generation calls
C3_AtMostOneFallback == []C3_State /\ [][C3_Step]_vars

\* C3 witness: the fallback call failed with an overload and the turn failed
C3_Witness ==
    \E s \in Slots :
        /\ pc[s] = "raised"
        /\ log[s].fallback_error # None
        /\ OverloadClass(Val(log[s].fallback_error))
        /\ CountCalls(log[s].calls, "primary") + CountCalls(log[s].calls, "fallback") = 2

\* the response carries no generated text: no content attribute, an empty
\* content list, or a first block with no text or an empty text
LacksText(response) ==
    \/ ~response.has_content
    \/ response.content = <<>>
    \/ ~response.content[1].has_text
    \/ response.content[1].text = <<>>

\* a generation call of the turn of column s answered without generated text
\* and the turn is over
LacksTextTurn(s) ==
    /\ TurnOver(s)
    /\ local[s].response # None
    /\ LacksText(Val(local[s].response))

\* C4 as stated: when the response lacks generated text, get_response raises
\* and the message sequence is the one before the turn began
C4_Original ==
    \A s \in Slots :
        LacksTextTurn(s) => pc[s] = "raised" /\ ctx[s].messages = log[s].pre

\* C4 amended: when the response lacks generated text, get_response raises
\* and appends no assistant message: the message sequence is the one before
\* the turn began, then the persona message if it was not there, then the
\* user message of the turn
C4_Amended ==
    \A s \in Slots :
        LacksTextTurn(s) =>
            /\ pc[s] = "raised"
            /\ ctx[s].messages =
                   log[s].pre
                       \o (IF PersonaAt(log[s].pre) = {} THEN <<PersonaMessage>> ELSE <<>>)
                       \o << Message("user", local[s].query, local[s].visible) >>

\* C4 witness: a chat turn on a context with history got an empty text
C4_Witness ==
    \E s \in Slots :
        /\ LacksTextTurn(s)
        /\ local[s].kind = "chat"
        /\ Len(log[s].pre) >= 3
        /\ Val(local[s].response).has_content

\* C5: a turn that fails, whatever the reason, appends no assistant message
C5_FailedTurnNoAssistant ==
    \A s \in Slots :
        pc[s] = "raised" =>
            CountRole(ctx[s].messages, "assistant") = CountRole(log[s].pre, "assistant")

\* C5 witness: a turn failed on a context that already held an assistant message
C5_Witness ==
    \E s \in Slots :
        /\ pc[s] = "raised"
        /\ CountRole(log[s].pre, "assistant") >= 1
        /\ local[s].response # None

\* C6 (state part): every message of a context was put there by a handler of
\* its own slot
C6_State ==
    \A k \in Slots :
        /\ Len(origin[k]) = Len(ctx[k].messages)
        /\ \A i \in 1..Len(origin[k]) : origin[k][i] = k

\* C6 (step part): a step of the handler of one slot leaves the context of
\* the other slot unchanged
C6_Step ==
    \A s \in Slots : \A t \in Slots \ {s} :
        pc'[s] # pc[s] => ctx'[t] = ctx[t]

\* C6: two slots driven in any interleaving show no cross-contamination
C6_SlotIsolation == []C6_State /\ [][C6_Step]_vars

\* C6 witness: slot 1 is in the middle of a turn while slot 2 holds the
\* history of its own turns, after slot 1 already had turns
C6_Witness ==
    /\ pc[1] = "primary"
    /\ Len(ctx[1].messages) >= 4
    /\ Len(ctx[2].messages) >= 3

\* C7: when the priming turn of a Start succeeds, the slot has the profile of
\* its Start bound, and its history is the persona message, the invisible
\* seed message and one visible assistant message
C7_StartResult ==
    \A s \in Slots :
        (pc[s] = "returned" /\ local[s].kind = "start") =>
            LET c == ctx[s]
            IN  /\ c.active_user_profile = Some(AllProfiles[s])
                /\ Len(c.messages) = 3
                /\ c.messages[1] = PersonaMessage
                /\ c.messages[2] = Message("user", SeedText, FALSE)
                /\ c.messages[3].role = "assistant"
                /\ c.messages[3].visible
                /\ c.messages[3].content # <<>>

\* C7 witness: a Start succeeded on a slot that had completed a chat turn
C7_Witness ==
    \E s \in Slots :
        /\ pc[s] = "returned"
        /\ local[s].kind = "start"
        /\ input_key[s] >= 1

\* C8: the priming message is stored invisible, and the rendered view of a
\* slot holds neither the persona message nor an invisible message
C8_PrimingInvisible ==
    \A k \in Slots :
        LET messages == ctx[k].messages
            view == display_chat_messages(messages)
        IN  /\ Len(messages) >= 2 => messages[2] = Message("user", SeedText, FALSE)
            /\ (pc[k] \in {"query", "primary"} /\ local[k].kind = "start") =>
                   messages[Len(messages)] = Message("user", SeedText, FALSE)
            /\ \A i \in 1..Len(view) :
                   /\ view[i].role # "system"
                   /\ view[i].visible
                   /\ ~SameMessage(view[i], PersonaMessage)

\* C8 witness: a slot whose history holds the priming message and a rendered
\* chat turn
C8_Witness ==
    \E k \in Slots :
        /\ Len(ctx[k].messages) = 5
        /\ Len(display_chat_messages(ctx[k].messages)) = 3

\* C9: no turn runs on a slot whose profile binding is none
C9_NoTurnWithoutProfile ==
    \A s \in Slots : pc[s] # "idle" => ctx[s].active_user_profile # None

\* C9 witness: a chat turn is running on a slot with a bound profile
C9_Witness ==
    \E s \in Slots :
        /\ pc[s] = "primary"
        /\ local[s].kind = "chat"
        /\ ctx[s].active_user_profile # None

\* C10 as stated: every completed turn, the priming turn of Start included,
\* increments the slot's input key by exactly one
C10_Original ==
    [][\A s \in Slots :
           (pc[s] = "returned" /\ pc'[s] = "idle") =>
               input_key'[s] = input_key[s] + 1]_vars

\* C10 amended: every completed turn entered through the chat input
\* increments the slot's input key by exactly one; the completed priming turn
\* of Start leaves it unchanged
C10_Amended ==
    [][\A s \in Slots :
           (pc[s] = "returned" /\ pc'[s] = "idle") =>
               /\ local[s].kind = "chat" => input_key'[s] = input_key[s] + 1
               /\ local[s].kind = "start" => input_key'[s] = input_key[s]]_vars

\* C10 witness: a chat turn completed and its handler ended
C10_Witness ==
    \E k \in Slots :
        /\ AllIdle
        /\ input_key[k] = 1
        /\ Len(ctx[k].messages) >= 4

\* C11: a slot's input key never decreases: no step, a failed turn and a
\* Start included, lowers or resets it
C11_KeyNeverDecreases ==
    [][\A k \in Slots : input_key'[k] >= input_key[k]]_vars

\* C11 witness: a slot whose key is 1 was started again and its priming
\* turn failed
C11_Witness ==
    \E k \in Slots :
        /\ input_key[k] = 1
        /\ pc[k] = "raised"
        /\ local[k].kind = "start"

\* C12: when a slot is restarted, the history, the flag and the cached
\* retrieval result of its context are empty, false and none before the
\* priming turn runs, and the profile of the Start is bound
C12_RestartClearsAll ==
    \A s \in Slots :
        (pc[s] = "call" /\ local[s].kind = "start") =>
            /\ ctx[s].messages = <<>>
            /\ ~ctx[s].system_message_added
            /\ ctx[s].last_query_results = None
            /\ ctx[s].active_user_profile = Some(AllProfiles[s])

\* the retrieval of the turn of column s answered, with an empty sequence
EmptyRetrieval(s) ==
    /\ pc[s] \in {"primary", "sleep", "fallback", "validate", "returned", "raised"}
    /\ local[s].prompt # <<>>
    /\ ctx[s].last_query_results = Some(<<>>)

\* C13: after an empty retrieval the turn goes on to the generation call, the
\* prompt ends with the header of the grounding block and nothing after it,
\* the turn does not fail for the retrieval, and when it completes the
\* assistant message is the last message of the context
C13_EmptyRetrievalProceeds ==
    \A s \in Slots :
        EmptyRetrieval(s) =>
            /\ SubSeq(local[s].prompt, Len(local[s].prompt), Len(local[s].prompt))
                   = <<"\n\nRelevant Document Context:\n">>
            /\ log[s].calls[1] = "query"
            /\ pc[s] # "primary" => CountCalls(log[s].calls, "primary") = 1
            /\ pc[s] = "raised" => local[s].error # Some(RetrievalError)
            /\ pc[s] = "returned" =>
                   /\ ctx[s].messages[Len(ctx[s].messages)].role = "assistant"
                   /\ Len(ctx[s].messages) = Len(log[s].pre) + 2
                          + (IF PersonaAt(log[s].pre) = {} THEN 1 ELSE 0)

\* C13 witness: a turn whose retrieval was empty completed
C13_Witness ==
    \E s \in Slots : EmptyRetrieval(s) /\ pc[s] = "returned"

\* the response of the failed turn of column s has the content attribute
\* but no generated text: an empty content list or an empty text
EmptyShape(response) ==
    /\ response.has_content
    /\ \/ response.content = <<>>
       \/ response.content[1].has_text /\ response.content[1].text = <<>>

C20_OneRetrievalFirst ==
    \A s \in Slots :
        LET calls == log[s].calls
        IN  /\ \A i \in 1..Len(calls) : calls[i] = "query" <=> i = 1
            /\ pc[s] \in {"primary", "sleep", "fallback", "validate",
                          "returned", "raised"} =>
                   /\ CountCalls(calls, "query") = 1
                   /\ log[s].queried = Some(local[s].query)
                   /\ \E i \in 1..Len(ctx[s].messages) :
                          /\ i > Len(log[s].pre)
                          /\ ctx[s].messages[i].role = "user"
                          /\ ctx[s].messages[i].content = Val(log[s].queried)
            /\ pc[s] \in {"idle", "call", "query"} => calls = <<>>

\* C20 witness: a chat turn made its retrieval call, then the primary call,
\* the delay and the fallback call, and completed
C20_Witness ==
    \E s \in Slots :
        /\ pc[s] = "returned"
        /\ local[s].kind = "chat"
        /\ Len(log[s].calls) = 4
        /\ log[s].queried # None

\* C19: _fix_text_formatting is idempotent: formatting a formatted text
\* gives the same text
C19_Idempotent ==
    Len(fixed) = 2 => fixed[2] = fixed[1]

\* C19 witness: a text with a bullet and the interrogative word that the
\* first formatting changed was formatted twice
C19_Witness ==
    /\ Len(fixed) = 2
    /\ fixed[1] # x
    /\ \E i \in 1..Len(x) : x[i] = Bullet
    /\ \E i \in 1..Len(x) : x[i] = "I"

\* C15: start_thread and log_message never raise, whether the logger is
\* connected or not and whether or not the call of the collection raised
C15_WritesNeverRaise ==
    ret.op \in {"start_thread", "log_message"} =>
        /\ ~ret.raised
        /\ ret.op = "start_thread" => ret.value # None

\* C15 witness: on a connected logger the collection raised inside
\* log_message after a thread was started
C15_Witness ==
    /\ constructed = "connected"
    /\ ret.op = "log_message"
    /\ ret.failed
    /\ issued # <<>>

\* a string of the form str(uuid.uuid4()) gives
IsUuid(id) ==
    /\ Len(id) = 36
    /\ \A i \in 1..36 :
           IF i \in {9, 14, 19, 24} THEN id[i] = "-"
           ELSE \E h \in 1..16 : id[i] = HexDigits[h]
    /\ id[15] = "4"
    /\ id[20] \in {"8", "9", "a", "b"}

\* C16: every identifier start_thread returns is a well-formed uuid string,
\* on a logger whose construction failed too, and no two calls return the
\* same identifier
C16_ValidDistinctIds ==
    /\ \A i \in 1..Len(issued) : IsUuid(issued[i])
    /\ \A i, j \in 1..Len(issued) : i # j => issued[i] # issued[j]
    /\ (ret.op = "start_thread" /\ ~ret.raised) =>
           /\ issued # <<>>
           /\ ret.value = issued[Len(issued)]

\* C16 witness: start_thread was called MaxThreads times on a logger whose
\* construction failed
C16_Witness ==
    /\ constructed = "failed"
    /\ ret.op = "start_thread"
    /\ Len(issued) = MaxThreads

\* C17: once construction failed, every later state is degraded: the handle
\* stays None, no call changes the collection, and no call raises; get_thread
\* returns None and the two list accessors return the empty list
C17_DegradedForGood ==
    [][constructed = "failed" =>
           /\ constructed' = "failed"
           /\ threads' = None
           /\ store' = store
           /\ ~ret'.raised
           /\ ret'.op = "get_thread" => ret'.value = None
           /\ ret'.op \in {"get_all_threads", "get_threads_in_timerange"} =>
                  ret'.value = <<>>]_vars

\* C17 witness: log_message was called on a logger whose construction
\* failed, for a thread it had issued
C17_Witness ==
    /\ constructed = "failed"
    /\ ret.op = "log_message"
    /\ issued # <<>>
    /\ store = <<>>

\* the transcript of the thread of context k, empty if it has no document
Transcript(k) ==
    IF Matching(store, thread_id[k]) = {} THEN <<>>
    ELSE Val(find_one(store, thread_id[k])).messages

RECURSIVE HistoryText(_)
HistoryText(entries) ==
    IF entries = <<>> THEN <<>>
    ELSE <<"\n\n">> \o entries[1].content \o HistoryText(Tail(entries))

\* the slots whose turn has assembled its prompt and not yet answered
Prompted(s) == pc[s] \in {"primary", "sleep", "fallback", "validate"}

\* C21: the history part of the prompt of a turn is the content of every
\* message of the context but the persona message, in insertion order,
\* invisible messages included; the message of the turn is the last entry,
\* and the persona message is no entry
C21_HistoryInPrompt ==
    \A s \in Slots :
        Prompted(s) =>
            LET c == ctx[ContextKey(s)]
                entries == SelectSeq(c.messages,
                               LAMBDA m : ~SameMessage(m, PersonaMessage))
                head == _create_prompt(<<>>, c.active_user_profile)
                documents == ContextHeader
                                 \o _format_context(Val(c.last_query_results))
            IN  /\ local[s].prompt = head \o HistoryText(entries) \o documents
                /\ entries # <<>>
                /\ entries[Len(entries)] =
                       Message("user", local[s].query, local[s].visible)
                /\ \A i \in 1..Len(entries) : entries[i].role # "system"

\* C21 witness: the prompt of a chat turn after a completed priming turn,
\* whose history holds the invisible seed, the opening remark and the
\* message of the turn
C21_Witness ==
    \E s \in Slots :
        LET messages == ctx[ContextKey(s)].messages
        IN  /\ pc[s] = "primary"
            /\ local[s].kind = "chat"
            /\ Len(messages) = 4
            /\ PersonaAt(messages) = {1}
            /\ ~messages[2].visible
            /\ messages[3].role = "assistant"
            /\ messages[4].role = "user"

\* C22 (step part): a step that changes the profile bound to a slot is the
\* Start action of that slot; every step of a turn leaves it as it was
C22_Step ==
    \A k \in Slots :
        ctx'[k].active_user_profile # ctx[k].active_user_profile =>
            /\ pc[k] = "idle"
            /\ pc'[k] = "call"
            /\ local'[k].kind = "start"

\* C22: the profile bound to a slot changes only by a Start action on that
\* slot: no turn, completed or failed, and no action of the other slot
\* changes it
C22_ProfileFixedBetweenStarts == [][C22_Step]_vars

\* C22 witness: a slot that completed a turn and then failed one still has
\* the profile of its Start bound, and the other slot, never started, has none
C22_Witness ==
    \E s \in Slots : \E t \in Slots \ {s} :
        /\ pc[s] = "raised"
        /\ local[s].kind = "chat"
        /\ CountRole(ctx[s].messages, "assistant") >= 1
        /\ ctx[s].active_user_profile = Some(AllProfiles[s])
        /\ ctx[t].active_user_profile = None

\* C23: in every context the one-shot flag system_message_added is true
\* exactly when the message sequence contains the persona message
C23_FlagIffPersona ==
    \A k \in Slots :
        ctx[k].system_message_added <=> PersonaAt(ctx[k].messages) # {}

\* C23 witness: a slot that completed a chat turn, so that its flag was set,
\* was started again: the flag is clear and the history holds no message
C23_Witness ==
    \E s \in Slots :
        /\ pc[s] = "call"
        /\ local[s].kind = "start"
        /\ input_key[s] = 1
        /\ ~ctx[s].system_message_added
        /\ ctx[s].messages = <<>>

\* C24: with the turns of a slot one after the other, in every context each
\* assistant message directly follows a user message, whatever turns failed
\* and whatever Start actions came before: no assistant message is first,
\* follows another assistant message or follows the persona message
C24_AssistantFollowsUser ==
    \A k \in Slots :
        LET messages == ctx[k].messages
        IN  \A i \in 1..Len(messages) :
                messages[i].role = "assistant" =>
                    /\ i > 1
                    /\ messages[i - 1].role = "user"

\* C24 witness: the priming turn failed and the chat turn after it was
\* answered: the assistant message follows two user messages in a row
C24_Witness ==
    \E s \in Slots :
        LET messages == ctx[s].messages
        IN  /\ pc[s] = "returned"
            /\ local[s].kind = "chat"
            /\ Len(messages) = 4
            /\ messages[2].role = "user"
            /\ messages[3].role = "user"
            /\ messages[4].role = "assistant"

\* C25: when the priming turn of a Start fails, the slot has the profile of
\* the Start bound and the one-shot flag set, its history is the persona
\* message followed by the invisible seed message, with no assistant message,
\* and the page shows the chat input of the slot
C25_FailedPriming ==
    \A s \in Slots :
        (pc[s] = "raised" /\ local[s].kind = "start") =>
            LET c == ctx[ContextKey(s)]
            IN  /\ c.active_user_profile = Some(AllProfiles[s])
                /\ c.system_message_added
                /\ c.messages = << PersonaMessage, Message("user", SeedText, FALSE) >>
                /\ ChatInputShown(c)

\* C25 witness: the priming turn of a Start failed in the fallback call, and
\* the slot holds the two messages and shows its chat input
C25_Witness ==
    \E s \in Slots :
        /\ pc[s] = "raised"
        /\ local[s].kind = "start"
        /\ log[s].fallback_error # None
        /\ Len(ctx[ContextKey(s)].messages) = 2
        /\ ChatInputShown(ctx[ContextKey(s)])

====
